---- MODULE Spec2Model ----
(***************************************************************************)
(* A model of the rubefunge-93 Befunge interpreter (src/src/befunge.rs):   *)
(* the Stack, the Program (grid and supplied values) and the Interpreter's *)
(* fetch / dispatch / advance loop.                                        *)
(*                                                                         *)
(* supplied is the value list Program::new was given; the program keeps no *)
(* copy of it, it is recorded for the properties that speak of it.  So are *)
(* the directions ? has drawn, in choices, in the runs that start with     *)
(* recording on; such a run draws MaxChoices directions at most.           *)
(*                                                                         *)
(* A u32 is kept as two 16-bit limbs <<hi, lo>> (value hi * 2^16 + lo), so *)
(* that the whole 32-bit range, its overflow and its wrap-around are exact.*)
(* A char is its Unicode codepoint.  A panic of the Rust program is the    *)
(* state pc = "panicked" with the kind of the panic in fault.              *)
(***************************************************************************)
EXTENDS Integers, Sequences, FiniteSets, TLC

VARIABLES stack, direction, state, pos, instructions, values,
          action, output, pc, fault, overflow_checks, supplied,
          recording, choices

vars == <<stack, direction, state, pos, instructions, values,
          action, output, pc, fault, overflow_checks, supplied,
          recording, choices>>

----------------------------------------------------------------------------
(* u32 arithmetic *)

Limb == 65536

U32(n) == <<n \div Limb, n % Limb>>

Zero == <<0, 0>>

U32Max == <<Limb - 1, Limb - 1>>

IsU32(x) == x[1] \in 0..(Limb - 1) /\ x[2] \in 0..(Limb - 1)

\* b > a on u32
gt_u32(b, a) == b[1] > a[1] \/ (b[1] = a[1] /\ b[2] > a[2])

\* b + a: the wrapped sum and whether the exact sum left the u32 range
overflowing_add(b, a) ==
    LET lo == b[2] + a[2]
        hi == b[1] + a[1] + (lo \div Limb)
    IN  [value |-> <<hi % Limb, lo % Limb>>, overflow |-> hi >= Limb]

\* b - a: the wrapped difference and whether the exact difference is negative
overflowing_sub(b, a) ==
    LET lo == b[2] - a[2]
        borrow == IF lo < 0 THEN 1 ELSE 0
        hi == b[1] - a[1] - borrow
    IN  [value |-> <<(hi + Limb) % Limb, (lo + Limb) % Limb>>,
         overflow |-> hi < 0]

\* x * y for 16-bit x and y, as the two limbs of the 32-bit product
Mul16(x, y) ==
    LET t == (x % 256) * y
        u == (x \div 256) * y
        s == t + ((u % 256) * 256)
    IN  <<(u \div 256) + (s \div Limb), s % Limb>>

\* b * a: the wrapped product and whether the exact product left the range
overflowing_mul(b, a) ==
    LET ll  == Mul16(b[2], a[2])
        hl  == Mul16(b[1], a[2])
        lh  == Mul16(b[2], a[1])
        mid == ll[1] + hl[2] + lh[2]
    IN  [value |-> <<mid % Limb, ll[2]>>,
         overflow |-> \/ (b[1] > 0 /\ a[1] > 0)
                      \/ hl[1] > 0 \/ lh[1] > 0
                      \/ mid >= Limb]

\* b / a and b % a for a # 0.  A divisor of 2^31 or more goes into b once
\* at most; a smaller one divides b's upper 31 bits, and the lowest bit is
\* brought down after
div_rem(b, a) ==
    IF gt_u32(a, b) THEN [quot |-> Zero, rem |-> b]
    ELSE IF a[1] >= Limb \div 2
    THEN [quot |-> U32(1), rem |-> overflowing_sub(b, a).value]
    ELSE LET d   == (a[1] * Limb) + a[2]
             top == (b[1] * (Limb \div 2)) + (b[2] \div 2)
             low == b[2] % 2
             q1  == U32(top \div d)
             r1  == top % d
             q2  == overflowing_add(q1, q1).value
         IN  IF r1 >= d - r1 - low
             THEN [quot |-> overflowing_add(q2, U32(1)).value,
                   rem  |-> U32(r1 - (d - r1 - low))]
             ELSE [quot |-> q2, rem |-> U32((2 * r1) + low)]

\* x as usize keeping the low 16 bits of x only
IndexBelowTruncated(x, n) == x[2] < n

\* x as usize, compared with a length n (n is small): x < n
IndexBelow(x, n) == x[1] = 0 /\ x[2] < n

\* x as usize, for an x known to be below a length
AsUsize(x) == x[2]

----------------------------------------------------------------------------
(* chars *)

\* The codepoint of each character the programs of this model are written in
\* (the double quote, the backslash and the backtick are spelled out)
Codepoints ==
    (" " :> 32) @@ ("!" :> 33) @@ ("quote" :> 34) @@ ("#" :> 35) @@
    ("$" :> 36) @@ ("%" :> 37) @@ ("&" :> 38) @@ ("*" :> 42) @@
    ("+" :> 43) @@ ("," :> 44) @@ ("-" :> 45) @@ ("." :> 46) @@
    ("/" :> 47) @@ ("0" :> 48) @@ ("1" :> 49) @@ ("2" :> 50) @@
    ("3" :> 51) @@ ("4" :> 52) @@ ("5" :> 53) @@ ("6" :> 54) @@
    ("7" :> 55) @@ ("8" :> 56) @@ ("9" :> 57) @@ (":" :> 58) @@
    ("<" :> 60) @@ (">" :> 62) @@ ("?" :> 63) @@ ("@" :> 64) @@
    ("O" :> 79) @@ ("backslash" :> 92) @@ ("^" :> 94) @@ ("_" :> 95) @@
    ("backtick" :> 96) @@ ("a" :> 97) @@ ("b" :> 98) @@ ("c" :> 99) @@
    ("g" :> 103) @@ ("p" :> 112) @@ ("v" :> 118) @@ ("x" :> 120) @@
    ("y" :> 121) @@ ("|" :> 124) @@ ("~" :> 126)

ord(c) == Codepoints[c]

\* instruction as u32
char_as_u32(c) == U32(c)

\* char::from_u32 accepting the surrogates
from_u32_in_range(v) == v[1] <= 16

\* char::from_u32: is v a Unicode scalar value (Some) or not (None)
from_u32_is_some(v) ==
    /\ v[1] <= 16
    /\ ~(v[1] = 0 /\ v[2] >= 55296 /\ v[2] <= 57343)

\* char::from_u32(v).unwrap() for a scalar value v
from_u32(v) == v[1] * Limb + v[2]

\* instruction.to_digit(10).unwrap() for a decimal digit
to_digit(c) == U32(c - ord("0"))

----------------------------------------------------------------------------
(* Stack *)

push(s, item) == Append(s, item)

\* pop taking the oldest value
pop_front(s) ==
    IF Len(s) = 0 THEN [value |-> Zero, stack |-> s]
    ELSE [value |-> s[1], stack |-> Tail(s)]

\* the value pop returns and the stack it leaves
pop(s) ==
    IF Len(s) = 0 THEN [value |-> Zero, stack |-> s]
    ELSE [value |-> s[Len(s)], stack |-> SubSeq(s, 1, Len(s) - 1)]

\* duplicate_top pushing one zero on the empty stack
duplicate_top_one_zero(s) ==
    IF Len(s) = 0 THEN push(s, Zero)
    ELSE LET x == s[Len(s)]
             t == SubSeq(s, 1, Len(s) - 1)
         IN  push(push(t, x), x)

duplicate_top(s) ==
    IF Len(s) = 0 THEN push(push(s, Zero), Zero)
    ELSE LET x == s[Len(s)]
             t == SubSeq(s, 1, Len(s) - 1)
         IN  push(push(t, x), x)

\* switch_top putting the zero under a single item
switch_top_zero_under(s) ==
    IF Len(s) = 0 THEN push(push(s, Zero), Zero)
    ELSE LET a  == s[Len(s)]
             s1 == SubSeq(s, 1, Len(s) - 1)
         IN  IF Len(s1) = 0 THEN push(push(s1, Zero), a)
             ELSE LET b  == s1[Len(s1)]
                      s2 == SubSeq(s1, 1, Len(s1) - 1)
                  IN  push(push(s2, a), b)

switch_top(s) ==
    IF Len(s) = 0 THEN push(push(s, Zero), Zero)
    ELSE LET a  == s[Len(s)]
             s1 == SubSeq(s, 1, Len(s) - 1)
         IN  IF Len(s1) = 0 THEN push(push(s1, a), Zero)
             ELSE LET b  == s1[Len(s1)]
                      s2 == SubSeq(s1, 1, Len(s1) - 1)
                  IN  push(push(s2, a), b)

----------------------------------------------------------------------------
(* Program *)

lines(ins) == Len(ins)

chars_in_line(ins, line) == Len(ins[line + 1])

\* instructions[pos[0]][pos[1]] is inside the grid (the index does not panic)
InGrid(ins, p) ==
    /\ p[1] >= 0 /\ p[1] < Len(ins)
    /\ p[2] >= 0 /\ p[2] < Len(ins[p[1] + 1])

get_instruction_char(ins, p) == ins[p[1] + 1][p[2] + 1]

set_instruction_char(ins, p, c) ==
    [ins EXCEPT ![p[1] + 1] = [@ EXCEPT ![p[2] + 1] = c]]

\* next_value taking the value at the back of the queue
next_value_back(vals) ==
    IF Len(vals) = 0 THEN [ok |-> FALSE, value |-> Zero, values |-> vals]
    ELSE [ok |-> TRUE, value |-> vals[Len(vals)],
          values |-> SubSeq(vals, 1, Len(vals) - 1)]

\* values[0] and values.split_off(1); values[0] panics on an empty Vec
next_value(vals) ==
    IF Len(vals) = 0 THEN [ok |-> FALSE, value |-> Zero, values |-> vals]
    ELSE [ok |-> TRUE, value |-> vals[1], values |-> Tail(vals)]

----------------------------------------------------------------------------
(* Interpreter *)

\* Interpreter::from_program
from_program(vals, ins) ==
    [stack |-> << >>, direction |-> "Right", state |-> "Normal",
     pos |-> <<0, 0>>, values |-> vals, instructions |-> ins]

\* update_pos wrapping a row at the width of the widest row
update_pos_widest(ins, p, d) ==
    LET width == CHOOSE w \in {Len(ins[i]) : i \in DOMAIN ins} :
                    \A i \in DOMAIN ins : Len(ins[i]) <= w
    IN  CASE d = "Right" ->
                IF p[2] = width - 1 THEN <<p[1], 0>> ELSE <<p[1], p[2] + 1>>
          [] d = "Left" ->
                IF p[2] = 0 THEN <<p[1], width - 1>> ELSE <<p[1], p[2] - 1>>
          [] d = "Up" ->
                IF p[1] = 0 THEN <<Len(ins) - 1, p[2]>>
                ELSE <<p[1] - 1, p[2]>>
          [] d = "Down" ->
                IF p[1] = Len(ins) - 1 THEN <<0, p[2]>>
                ELSE <<p[1] + 1, p[2]>>

\* update_pos going Up from row 0 to row lines, one past the last row
update_pos_up_past(ins, p, d) ==
    CASE d = "Right" ->
            IF p[2] = chars_in_line(ins, p[1]) - 1 THEN <<p[1], 0>>
            ELSE <<p[1], p[2] + 1>>
      [] d = "Left" ->
            IF p[2] = 0 THEN <<p[1], chars_in_line(ins, p[1]) - 1>>
            ELSE <<p[1], p[2] - 1>>
      [] d = "Up" ->
            IF p[1] = 0 THEN <<lines(ins), p[2]>>
            ELSE <<p[1] - 1, p[2]>>
      [] d = "Down" ->
            IF p[1] = lines(ins) - 1 THEN <<0, p[2]>>
            ELSE <<p[1] + 1, p[2]>>

\* One advance of the position p in direction d
update_pos(ins, p, d) ==
    CASE d = "Right" ->
            IF p[2] = chars_in_line(ins, p[1]) - 1 THEN <<p[1], 0>>
            ELSE <<p[1], p[2] + 1>>
      [] d = "Left" ->
            IF p[2] = 0 THEN <<p[1], chars_in_line(ins, p[1]) - 1>>
            ELSE <<p[1], p[2] - 1>>
      [] d = "Up" ->
            IF p[1] = 0 THEN <<lines(ins) - 1, p[2]>>
            ELSE <<p[1] - 1, p[2]>>
      [] d = "Down" ->
            IF p[1] = lines(ins) - 1 THEN <<0, p[2]>>
            ELSE <<p[1] + 1, p[2]>>

\* What process_instruction leaves: it returned act, the stack is stk
Returned(stk, act) ==
    [stack |-> stk, instructions |-> instructions, values |-> values,
     output |-> output, action |-> act, fault |-> "none"]

\* process_instruction panicked with the stack at stk
Panicked(stk, kind) ==
    [stack |-> stk, instructions |-> instructions, values |-> values,
     output |-> output, action |-> action, fault |-> kind]

\* push(b OP a) for +, -, *: a build with overflow checks panics on overflow,
\* a build without them pushes the wrapped result
PushArith(stk, res) ==
    IF res.overflow /\ overflow_checks THEN Panicked(stk, "ArithmeticOverflow")
    ELSE Returned(push(stk, res.value), <<"None">>)

\* The directions numbered from 1: 0 and 1 are both Left
RandomDirFromOne(r) ==
    CASE r = 0 -> "Left" [] r = 1 -> "Left" [] r = 2 -> "Up" [] r = 3 -> "Down"

\* The direction of gen_range(0, 4)'s result r
RandomDir(r) ==
    CASE r = 0 -> "Right" [] r = 1 -> "Left" [] r = 2 -> "Up" [] r = 3 -> "Down"

IsDigit(c) == c >= ord("0") /\ c <= ord("9")

\* '+' losing its second operand
ProcessAddDropsB ==
    LET a == pop(stack)
        b == pop(a.stack)
    IN  PushArith(b.stack, overflowing_add(Zero, a.value))

\* '+'
ProcessAdd ==
    LET a == pop(stack)
        b == pop(a.stack)
    IN  PushArith(b.stack, overflowing_add(b.value, a.value))

\* '-' computing a - b
ProcessSubSwapped ==
    LET a == pop(stack)
        b == pop(a.stack)
    IN  PushArith(b.stack, overflowing_sub(a.value, b.value))

\* '-'
ProcessSub ==
    LET a == pop(stack)
        b == pop(a.stack)
    IN  PushArith(b.stack, overflowing_sub(b.value, a.value))

\* '*'
ProcessMul ==
    LET a == pop(stack)
        b == pop(a.stack)
    IN  PushArith(b.stack, overflowing_mul(b.value, a.value))

\* '/' pushing 0 for a division by zero
ProcessDivZeroIsZero ==
    LET a == pop(stack)
        b == pop(a.stack)
    IN  IF a.value = Zero THEN Returned(push(b.stack, Zero), <<"None">>)
        ELSE Returned(push(b.stack, div_rem(b.value, a.value).quot), <<"None">>)

\* '/'
ProcessDiv ==
    LET a == pop(stack)
        b == pop(a.stack)
    IN  IF a.value = Zero THEN Panicked(b.stack, "DivideByZero")
        ELSE Returned(push(b.stack, div_rem(b.value, a.value).quot), <<"None">>)

\* '%'
ProcessRem ==
    LET a == pop(stack)
        b == pop(a.stack)
    IN  IF a.value = Zero THEN Panicked(b.stack, "DivideByZero")
        ELSE Returned(push(b.stack, div_rem(b.value, a.value).rem), <<"None">>)

\* '!'
ProcessNot ==
    LET a == pop(stack)
    IN  Returned(push(a.stack, IF a.value = Zero THEN U32(1) ELSE U32(0)),
                 <<"None">>)

\* '`'
ProcessGreater ==
    LET a == pop(stack)
        b == pop(a.stack)
    IN  Returned(push(b.stack,
                      IF gt_u32(b.value, a.value) THEN U32(1) ELSE U32(0)),
                 <<"None">>)

\* '_'
ProcessHorizontalIf ==
    LET a == pop(stack)
    IN  Returned(a.stack, IF a.value = Zero THEN <<"ChangeDir", "Right">>
                          ELSE <<"ChangeDir", "Left">>)

\* '|'
ProcessVerticalIf ==
    LET a == pop(stack)
    IN  Returned(a.stack, IF a.value = Zero THEN <<"ChangeDir", "Down">>
                          ELSE <<"ChangeDir", "Up">>)

\* '.'
ProcessPrintNumber ==
    LET a == pop(stack)
    IN  [Returned(a.stack, <<"None">>) EXCEPT
            !.output = Append(output, <<"number", a.value>>)]

\* ','
ProcessPrintChar ==
    LET a == pop(stack)
    IN  IF ~from_u32_is_some(a.value) THEN Panicked(a.stack, "UnwrapNone")
        ELSE [Returned(a.stack, <<"None">>) EXCEPT
                !.output = Append(output, <<"char", from_u32(a.value)>>)]

\* The grid position [x as usize, y as usize] of 'p' and 'g': x indexes the
\* rows (pos[0]) and y the characters of the row (pos[1])
GridPos(x, y) == <<AsUsize(x), AsUsize(y)>>

\* instructions[x as usize][y as usize] does not panic
GridIndexOk(ins, x, y) ==
    /\ IndexBelow(x, Len(ins))
    /\ IndexBelow(y, Len(ins[AsUsize(x) + 1]))

\* 'p' popping its three values and writing nothing
ProcessPutDiscards ==
    LET x == pop(stack)
        y == pop(x.stack)
        v == pop(y.stack)
    IN  IF ~from_u32_is_some(v.value) THEN Panicked(v.stack, "UnwrapNone")
        ELSE IF ~GridIndexOk(instructions, x.value, y.value)
        THEN Panicked(v.stack, "IndexOutOfBounds")
        ELSE Returned(v.stack, <<"None">>)

\* 'p' taking the first popped value for the column and the second for the row
ProcessPutColumnFirst ==
    LET x == pop(stack)
        y == pop(x.stack)
        v == pop(y.stack)
    IN  IF ~from_u32_is_some(v.value) THEN Panicked(v.stack, "UnwrapNone")
        ELSE IF ~GridIndexOk(instructions, y.value, x.value)
        THEN Panicked(v.stack, "IndexOutOfBounds")
        ELSE [Returned(v.stack, <<"None">>) EXCEPT
                !.instructions =
                    set_instruction_char(instructions,
                                         GridPos(y.value, x.value),
                                         from_u32(v.value))]

\* 'p'
ProcessPut ==
    LET x == pop(stack)
        y == pop(x.stack)
        v == pop(y.stack)
    IN  IF ~from_u32_is_some(v.value) THEN Panicked(v.stack, "UnwrapNone")
        ELSE IF ~GridIndexOk(instructions, x.value, y.value)
        THEN Panicked(v.stack, "IndexOutOfBounds")
        ELSE [Returned(v.stack, <<"None">>) EXCEPT
                !.instructions =
                    set_instruction_char(instructions,
                                         GridPos(x.value, y.value),
                                         from_u32(v.value))]

\* 'g'
ProcessGet ==
    LET x == pop(stack)
        y == pop(x.stack)
    IN  IF ~GridIndexOk(instructions, x.value, y.value)
        THEN Panicked(y.stack, "IndexOutOfBounds")
        ELSE Returned(push(y.stack,
                           char_as_u32(get_instruction_char(
                               instructions, GridPos(x.value, y.value)))),
                      <<"None">>)

\* '&' and '~'
ProcessInput ==
    LET val == next_value(values)
    IN  IF ~val.ok THEN Panicked(stack, "IndexOutOfBounds")
        ELSE [Returned(push(stack, val.value), <<"None">>) EXCEPT
                !.values = val.values]

\* State::String ending the program at '@'
ProcessStringHalts(instruction) ==
    IF instruction = ord("quote") THEN Returned(stack, <<"ChangeState", "Normal">>)
    ELSE IF instruction = ord("@") THEN Returned(stack, <<"End">>)
    ELSE Returned(push(stack, char_as_u32(instruction)), <<"None">>)

\* State::String pushing the closing quote too
ProcessStringPushesQuote(instruction) ==
    IF instruction = ord("quote")
    THEN Returned(push(stack, char_as_u32(instruction)),
                  <<"ChangeState", "Normal">>)
    ELSE Returned(push(stack, char_as_u32(instruction)), <<"None">>)

\* process_instruction in State::String
ProcessString(instruction) ==
    IF instruction = ord("quote") THEN Returned(stack, <<"ChangeState", "Normal">>)
    ELSE Returned(push(stack, char_as_u32(instruction)), <<"None">>)

\* process_instruction in State::Normal; r is what gen_range(0, 4) returns
ProcessNormal(instruction, r) ==
    CASE IsDigit(instruction) ->
            Returned(push(stack, to_digit(instruction)), <<"None">>)
      [] instruction = ord("+") -> ProcessAdd
      [] instruction = ord("-") -> ProcessSub
      [] instruction = ord("*") -> ProcessMul
      [] instruction = ord("/") -> ProcessDiv
      [] instruction = ord("%") -> ProcessRem
      [] instruction = ord("!") -> ProcessNot
      [] instruction = ord("backtick") -> ProcessGreater
      [] instruction = ord(">") -> Returned(stack, <<"ChangeDir", "Right">>)
      [] instruction = ord("<") -> Returned(stack, <<"ChangeDir", "Left">>)
      [] instruction = ord("^") -> Returned(stack, <<"ChangeDir", "Up">>)
      [] instruction = ord("v") -> Returned(stack, <<"ChangeDir", "Down">>)
      [] instruction = ord("?") -> Returned(stack, <<"ChangeDir", RandomDir(r)>>)
      [] instruction = ord("_") -> ProcessHorizontalIf
      [] instruction = ord("|") -> ProcessVerticalIf
      [] instruction = ord("quote") -> Returned(stack, <<"ChangeState", "String">>)
      [] instruction = ord(":") -> Returned(duplicate_top(stack), <<"None">>)
      [] instruction = ord("backslash") -> Returned(switch_top(stack), <<"None">>)
      [] instruction = ord("$") -> Returned(pop(stack).stack, <<"None">>)
      [] instruction = ord(".") -> ProcessPrintNumber
      [] instruction = ord(",") -> ProcessPrintChar
      [] instruction = ord("#") -> Returned(stack, <<"Trampoline">>)
      [] instruction = ord("p") -> ProcessPut
      [] instruction = ord("g") -> ProcessGet
      [] instruction = ord("&") -> ProcessInput
      [] instruction = ord("~") -> ProcessInput
      [] instruction = ord("@") -> Returned(stack, <<"End">>)
      [] OTHER -> Returned(stack, <<"None">>)

\* process_instruction with self.state = st
process_instruction(st, instruction, r) ==
    IF st = "String" THEN ProcessString(instruction)
    ELSE ProcessNormal(instruction, r)

----------------------------------------------------------------------------
(* The programs and supplied values the interpreter is run on *)

MaxValues == 2

MaxRows == 3

MaxCols == 3

MaxStack == 6

MaxChoices == 6

Row(s) == [i \in 1..Len(s) |-> ord(s[i])]

\* The module documentation's example program
DocExample ==
    <<Row(<<"1", "2", "4", "8", ":", ":", "+", "1", ">", " ", "#", "+",
           "?", "backslash", "#", " ", "_", ".", "@">>)>>

\* The same program without the blank after the second #
SpecExample ==
    <<Row(<<"1", "2", "4", "8", ":", ":", "+", "1", ">", " ", "#", "+",
           "?", "backslash", "#", "_", ".", "@">>)>>

\* main's program, the Sieve of Eratosthenes
Sieve ==
    <<Row(<<"2", ">", ":", "3", "g", "quote", " ", "quote", "-", "!",
           "v", "backslash", " ", " ", "g", "3", "0", " ", " ", " ", " ",
           " ", " ", " ", " ", " ", " ", "<">>),
       Row(<<" ", "|", "!", "backtick", "quote", "O", "quote", ":", "+",
           "1", "_", ":", ".", ":", "0", "3", "p", ">", "0", "3", "g", "+",
           ":", "quote", "O", "quote", "backtick", "|">>),
       Row(<<" ", "@", " ", " ", " ", " ", " ", " ", " ", " ", " ", " ",
           " ", " ", " ", " ", " ", "^", " ", " ", "p", "3", "backslash",
           "quote", " ", "quote", ":", "<">>),
       Row(<<"2", " ", "2", "3", "4", "5", "6", "7", "8", "9", "0", "1",
           "2", "3", "4", "5", "6", "7", "8", "9", "0", "1", "2", "3", "4",
           "5", "6", "7", "8", "9", "0", "1", "2", "3", "4", "5", "6", "7",
           "8", "9", "0", "1", "2", "3", "4", "5", "6", "7", "8", "9", "0",
           "1", "2", "3", "4", "5", "6", "7", "8", "9", "0", "1", "2", "3",
           "4", "5", "6", "7", "8", "9", "0", "1", "2", "3", "4", "5", "6",
           "7", "8", "9">>)>>

\* 3 9 - and print
SubProgram ==
    <<Row(<<"3", "9", "-", ".", "@">>)>>

\* A string
StringProgram ==
    <<Row(<<"quote", "a", "b", "c", "quote", "@">>)>>

\* A string of characters that are instructions in Normal mode
StringOfInstructions ==
    <<Row(<<"quote", "@", "#", "<", "p", "&", "quote", "@">>)>>

\* p of a supplied value, with digits a and b pushed after it: p pops b
\* first, then a
PutAt(a, b) ==
    <<Row(<<"&", a, b, "p", " ", " ", " ", "@">>),
       Row(<<"x", "y">>)>>

PutPrograms == {PutAt(a, b) : a \in {"0", "1", "5"}, b \in {"0", "1", "5"}}

\* p of a 7 at two supplied coordinates
PutSupplied ==
    <<Row(<<"7", "&", "&", "p", "@">>),
       Row(<<"x", "y">>)>>

\* g with two supplied values
GetProgram ==
    <<Row(<<"&", "&", "g", ".", "@">>),
       Row(<<"x", "y">>)>>

\* p, then g of the same cell
PutGetProgram ==
    <<Row(<<"&", "0", "1", "p", "0", "1", "g", ".", "@">>),
       Row(<<"x">>)>>

\* Both input instructions
InputProgram ==
    <<Row(<<"&", "~", ".", ".", "@">>)>>

\* Print a supplied value as a char
PrintCharProgram ==
    <<Row(<<"&", ",", "@">>)>>

\* A program that pushes for ever
PushForever ==
    <<Row(<<"1">>)>>

\* A one-row program that turns upwards
OneRowUp ==
    <<Row(<<"1", "^", "@">>)>>

\* A one-row program that turns downwards
OneRowDown ==
    <<Row(<<"1", "v", "@">>)>>

\* Rows of unequal length, travelled downwards
JaggedDown ==
    <<Row(<<"1", "v">>),
       Row(<<"@">>)>>

\* Stack and conditional instructions
StackProgram ==
    <<Row(<<"7", ":", "backslash", "$", "!", "5", "_", "3", "|">>),
       Row(<<" ", " ", "@", " ", " ", "@", " ", "9", " ">>),
       Row(<<" ", " ", " ", " ", ".", " ", " ", " ", " ">>)>>

\* Pushes, pops, and pops of the empty stack
PopProgram ==
    <<Row(<<"1", "2", ".", "$", "$", "$", ".", "@">>)>>

\* : or the backslash on three values
OnThree(op) == <<Row(<<"5", "3", "9", op, "@">>)>>

\* : and the backslash on an empty stack, on one value and on three
StackOpPrograms ==
    UNION {{<<Row(<<op, "@">>)>>, <<Row(<<"7", op, "@">>)>>, OnThree(op)}
           : op \in {":", "backslash"}}

BinaryInstructions == {"+", "-", "*", "/", "%", "backtick"}

\* A binary instruction on an empty stack, on one operand (5, and 0), and
\* on two supplied operands above a 7
BinaryOnSupplied(op) == <<Row(<<"7", "&", "&", op, ".", ".", "@">>)>>

BinaryPrograms ==
    UNION {{<<Row(<<op, ".", "@">>)>>,
            <<Row(<<"5", op, ".", "@">>)>>,
            <<Row(<<"0", op, ".", "@">>)>>,
            BinaryOnSupplied(op)}
           : op \in BinaryInstructions}

\* Every grid of 1..MaxRows rows of 1..MaxCols cells each
Shapes == UNION {[1..n -> 1..MaxCols] : n \in 1..MaxRows}

\* The grid of shape sh whose cells are all c
Filled(sh, c) == [i \in DOMAIN sh |-> [j \in 1..sh[i] |-> ord(c)]]

\* Grids of every shape (jagged ones too) filled with ?, so that the pointer
\* travels them in every direction, and the same with a # in the first cell
WalkPrograms ==
    {Filled(sh, "?") : sh \in Shapes}
    \cup {set_instruction_char(Filled(sh, "?"), <<0, 0>>, ord("#")) :
            sh \in Shapes}

\* Rows of unequal length, the shorter one travelled rightwards round its end
JaggedWrap ==
    <<Row(<<"v", " ", " ">>),
       Row(<<">", "1">>)>>

NamedPrograms ==
    {DocExample, SpecExample, Sieve, SubProgram, StringProgram,
     StringOfInstructions, PutSupplied, GetProgram, PutGetProgram, InputProgram, PrintCharProgram, PushForever, OneRowUp, OneRowDown,
     JaggedDown, JaggedWrap, StackProgram, PopProgram, << >>, << << >> >>}

Programs ==
    NamedPrograms \cup BinaryPrograms \cup PutPrograms \cup WalkPrograms
    \cup StackOpPrograms

\* Values a caller may supply: small ones, codepoints, and the ends of the
\* ranges of char and of u32
SuppliedValues ==
    {U32(0), U32(1), U32(9), U32(64), U32(55296), U32(1114112), U32Max}

Queues == UNION {[1..n -> SuppliedValues] : n \in 0..MaxValues}

UsesInput(ins) ==
    \E i \in DOMAIN ins : \E j \in DOMAIN ins[i] :
        ins[i][j] \in {ord("&"), ord("~")}

\* A program that reads input is run on every queue, the named ones that
\* read none on the documentation's vec![0u32] and on no values, the others
\* on no values
Inputs ==
    {[values |-> q, instructions |-> g] :
        <<q, g>> \in {t \in Queues \X Programs :
                        \/ UsesInput(t[2])
                        \/ t[1] = << >>
                        \/ t[1] = <<U32(0)>> /\ t[2] \in NamedPrograms}}

----------------------------------------------------------------------------
(* The run *)

\* The interpreter of the program inp, not yet executed
Created(inp) ==
    LET new == from_program(inp.values, inp.instructions)
    IN  /\ stack = new.stack
        /\ direction = new.direction
        /\ state = new.state
        /\ pos = new.pos
        /\ values = new.values
        /\ instructions = new.instructions
        /\ supplied = inp.values
        /\ overflow_checks \in BOOLEAN
        /\ action = <<"None">>
        /\ output = << >>
        /\ pc = "new"
        /\ fault = "none"
        /\ choices = << >>

Init ==
    /\ \E inp \in Inputs : Created(inp)
    /\ recording = FALSE

\* The example program on the one supplied value 0, its choices recorded
ExampleInit ==
    /\ Created([values |-> <<U32(0)>>, instructions |-> SpecExample])
    /\ recording = TRUE

\* What thread_rng().gen_range(0, 4) may return where it is called, in the
\* arm of '?'; no other instruction draws a number
RandomRange(st, instruction) ==
    IF st = "Normal" /\ instruction = ord("?") THEN 0..3 ELSE {0}

\* get_instruction_char(self.pos) and process_instruction of it, with the
\* position at p and the state at st
Dispatch(p, st) ==
    IF ~InGrid(instructions, p)
    THEN /\ pc' = "panicked"
         /\ fault' = "IndexOutOfBounds"
         /\ UNCHANGED <<stack, instructions, values, output, action, choices>>
    ELSE \E r \in RandomRange(st, get_instruction_char(instructions, p)) :
            LET res == process_instruction(
                           st, get_instruction_char(instructions, p), r)
                drawn == /\ recording
                         /\ st = "Normal"
                         /\ get_instruction_char(instructions, p) = ord("?")
            IN  /\ drawn => Len(choices) < MaxChoices
                /\ choices' = IF drawn THEN Append(choices, RandomDir(r))
                              ELSE choices
                /\ stack' = res.stack
                /\ instructions' = res.instructions
                /\ values' = res.values
                /\ output' = res.output
                /\ action' = res.action
                /\ fault' = res.fault
                /\ pc' = IF res.fault = "none" THEN "running" ELSE "panicked"

\* execute, up to the loop
ExecuteStart ==
    /\ pc = "new"
    /\ Dispatch(pos, state)
    /\ UNCHANGED <<direction, state, pos, overflow_checks, supplied,
                   recording>>

\* The loop body advancing once after a Trampoline too
AppliedOnce ==
    LET d  == IF action[1] = "ChangeDir" THEN action[2] ELSE direction
        st == IF action[1] = "ChangeState" THEN action[2] ELSE state
    IN  [direction |-> d, state |-> st,
         pos |-> update_pos(instructions, pos, d)]

\* The direction, state and position the loop body sets before it fetches
Applied ==
    LET d  == IF action[1] = "ChangeDir" THEN action[2] ELSE direction
        st == IF action[1] = "ChangeState" THEN action[2] ELSE state
        p1 == IF action[1] = "Trampoline"
              THEN update_pos(instructions, pos, d) ELSE pos
    IN  [direction |-> d, state |-> st,
         pos |-> update_pos(instructions, p1, d)]

\* One iteration of execute's loop
LoopIteration ==
    /\ pc = "running"
    /\ action # <<"End">>
    /\ Len(stack) <= MaxStack
    /\ direction' = Applied.direction
    /\ state' = Applied.state
    /\ pos' = Applied.pos
    /\ Dispatch(Applied.pos, Applied.state)
    /\ UNCHANGED <<overflow_checks, supplied, recording>>

\* The loop is left: end_program
EndProgram ==
    /\ pc = "running"
    /\ action = <<"End">>
    /\ pc' = "finished"
    /\ output' = Append(output, <<"banner">>)
    /\ UNCHANGED <<stack, direction, state, pos, instructions, values,
                   action, fault, overflow_checks, supplied, recording,
                   choices>>

Next == ExecuteStart \/ LoopIteration \/ EndProgram

Spec == Init /\ [][Next]_vars

\* The runs of the example program
ExampleSpec == ExampleInit /\ [][Next]_vars

\* The example program on the one supplied value 0, nothing recorded
ExampleUnrecordedInit ==
    /\ Created([values |-> <<U32(0)>>, instructions |-> SpecExample])
    /\ recording = FALSE

\* An iteration of the loop in which ? draws Right
DrawsRight ==
    /\ LoopIteration
    /\ state' = "Normal"
    /\ get_instruction_char(instructions, pos') = ord("?")
    /\ action' = <<"ChangeDir", "Right">>

\* The runs of the example program in which execute keeps running until it
\* returns or panics, and ? does not avoid Right for ever
FairExampleSpec ==
    ExampleUnrecordedInit /\ [][Next]_vars /\ WF_vars(Next) /\ SF_vars(DrawsRight)

----------------------------------------------------------------------------
(* Steps of the run, as the properties below speak of them *)

\* A step that fetches and dispatches (ExecuteStart or LoopIteration)
DispatchStep == pc \in {"new", "running"} /\ pc' \in {"running", "panicked"}

\* A step of the loop body
LoopStep == pc = "running" /\ pc' \in {"running", "panicked"}

\* The fetch of the step succeeds: the position it reads is in the grid
FetchOk == InGrid(instructions, pos')

\* The character the step fetches
Fetched == get_instruction_char(instructions, pos')

\* The step dispatches character c in Normal mode
DispatchesNormal(c) ==
    DispatchStep /\ FetchOk /\ state' = "Normal" /\ Fetched = ord(c)

\* The first, second and third pop of the stack before the step
Pop1 == pop(stack)
Pop2 == pop(Pop1.stack)
Pop3 == pop(Pop2.stack)

\* No row of the grid is empty and there is a row
HasCells(ins) == Len(ins) > 0 /\ \A i \in DOMAIN ins : Len(ins[i]) > 0

----------------------------------------------------------------------------
(* C1: in every reachable state the position is inside the grid (row below
   the number of rows, column below the length of that row), for every
   initial grid, jagged ones included.  Stated here for the grids that have
   no empty row; the code breaks it on a jagged grid travelled vertically. *)
C1_PositionInBounds ==
    HasCells(instructions) => InGrid(instructions, pos)

(* C2, as claimed: p writes the character of the third popped value at
   row = second popped, column = first popped; g pushes the codepoint of the
   cell at row = second popped, column = first popped. *)
C2_ColumnFirst ==
    [][/\ (DispatchesNormal("p")
             /\ from_u32_is_some(Pop3.value)
             /\ GridIndexOk(instructions, Pop2.value, Pop1.value))
          => instructions' =
                set_instruction_char(instructions,
                                     <<AsUsize(Pop2.value), AsUsize(Pop1.value)>>,
                                     from_u32(Pop3.value))
       /\ (DispatchesNormal("g")
             /\ GridIndexOk(instructions, Pop2.value, Pop1.value))
          => stack' =
                Append(Pop2.stack,
                       U32(instructions[AsUsize(Pop2.value) + 1]
                                       [AsUsize(Pop1.value) + 1]))]_vars

(* C2, amended: p pops x, then y, then v and writes the character of
   codepoint v at row = x, column = y; g pops x, then y and pushes the
   codepoint of the cell at row = x, column = y: the first popped value is
   the row.  Both when the cell exists (and v is a scalar value). *)
C2_RowFirst ==
    [][/\ (DispatchesNormal("p")
             /\ from_u32_is_some(Pop3.value)
             /\ GridIndexOk(instructions, Pop1.value, Pop2.value))
          => /\ instructions' =
                  set_instruction_char(instructions,
                                       <<AsUsize(Pop1.value), AsUsize(Pop2.value)>>,
                                       from_u32(Pop3.value))
             /\ stack' = Pop3.stack
             /\ pc' = "running"
       /\ (DispatchesNormal("g")
             /\ GridIndexOk(instructions, Pop1.value, Pop2.value))
          => /\ stack' =
                  Append(Pop2.stack,
                         U32(instructions[AsUsize(Pop1.value) + 1]
                                         [AsUsize(Pop2.value) + 1]))
             /\ instructions' = instructions
             /\ pc' = "running"]_vars

\* p has written the supplied 9 at row 1, column 0: it popped 1, then 0
C2_Witness ==
    /\ pc = "running"
    /\ pos = <<0, 3>>
    /\ Len(instructions) = 2
    /\ instructions[1] = PutAt("0", "1")[1]
    /\ instructions[2] = <<9, ord("y")>>

(* C3: each iteration of the loop advances the position exactly once in the
   direction in force, and exactly twice when the action is Trampoline; what
   is then dispatched is the cell two advances away and nothing else, so the
   cell in between has no effect on stack, grid, queue or output. *)
C3_TrampolineSkips ==
    [][LoopStep =>
         LET once == update_pos(instructions, pos, direction')
             twice == update_pos(instructions, once, direction')
         IN  /\ action # <<"Trampoline">> => pos' = once
             /\ action = <<"Trampoline">> =>
                  /\ pos' = twice
                  /\ direction' = direction /\ state' = state
                  /\ FetchOk =>
                       \E r \in 0..3 :
                          LET res == process_instruction(state, Fetched, r)
                          IN  /\ stack' = res.stack
                              /\ instructions' = res.instructions
                              /\ values' = res.values
                              /\ output' = res.output]_vars

\* The example's first # has skipped the + behind it: the ? is dispatched
\* with all six values still on the stack
C3_Witness ==
    /\ instructions = DocExample
    /\ pos = <<0, 12>>
    /\ action[1] = "ChangeDir"
    /\ Len(stack) = 6

\* One toroidal advance, in modular arithmetic
Toroidal(ins, p, d) ==
    LET L == Len(ins[p[1] + 1])
        n == Len(ins)
    IN  CASE d = "Right" -> <<p[1], (p[2] + 1) % L>>
          [] d = "Left"  -> <<p[1], (p[2] + L - 1) % L>>
          [] d = "Down"  -> <<(p[1] + 1) % n, p[2]>>
          [] d = "Up"    -> <<(p[1] + n - 1) % n, p[2]>>

(* C4: one advance is toroidal: Right and Left move the column by one modulo
   the length of the current row and keep the row, Down and Up move the row
   by one modulo the number of rows and keep the column. *)
C4_ToroidalAdvance ==
    [][LoopStep =>
         LET once == Toroidal(instructions, pos, direction')
         IN  pos' = IF action = <<"Trampoline">>
                    THEN Toroidal(instructions, once, direction')
                    ELSE once]_vars

\* The second row, of length 2 under a row of length 3, has been travelled
\* round its end: its 1 was pushed twice
C4_Witness ==
    /\ instructions = JaggedWrap
    /\ pos = <<1, 1>>
    /\ Len(stack) = 2

(* C5: execute ends only by dispatching @ in Normal mode, and the position
   then rests on that @; an @ read in String mode is pushed as 64 and the
   run goes on; the first dispatch is of cell (0,0), with direction Right,
   mode Normal and an empty stack. *)
C5_HaltOnlyAtNormalEnd ==
    [][/\ pc = "new" =>
            /\ pos = <<0, 0>> /\ direction = "Right"
            /\ state = "Normal" /\ stack = << >>
            /\ pos' = pos /\ direction' = direction /\ state' = state
       /\ pc' = "finished" =>
            /\ pc = "running" /\ action = <<"End">> /\ fault = "none"
            /\ pos' = pos /\ state = "Normal"
            /\ InGrid(instructions, pos)
            /\ get_instruction_char(instructions, pos) = ord("@")
       /\ DispatchStep =>
            /\ action # <<"End">>
            /\ action' = <<"End">> <=>
                 (FetchOk /\ Fetched = ord("@") /\ state' = "Normal")
       /\ (DispatchStep /\ FetchOk /\ Fetched = ord("@") /\ state' = "String")
            => /\ stack' = Append(stack, U32(64))
               /\ pc' = "running"
               /\ action' = <<"None">>]_vars

\* The run of a string holding an @ has pushed 64 for it and ended at the
\* @ behind the string
C5_Witness ==
    /\ pc = "finished"
    /\ instructions = StringOfInstructions
    /\ pos = <<0, 7>>
    /\ stack[1] = U32(64)

(* C6: in String mode every character but the double quote is pushed as its
   codepoint and does nothing else (the action is None: the next iteration
   keeps direction and mode and advances once); the double quote pushes
   nothing and sets the mode to Normal.  The cells "abc" leave 97, 98, 99 on
   the stack, c on top, in Normal mode. *)
C6_StringCapture ==
    [][/\ (DispatchStep /\ FetchOk /\ state' = "String"
             /\ Fetched # ord("quote"))
            => /\ stack' = Append(stack, U32(Fetched))
               /\ action' = <<"None">>
               /\ pc' = "running"
               /\ instructions' = instructions
               /\ values' = values
               /\ output' = output
       /\ (DispatchStep /\ FetchOk /\ state' = "String"
             /\ Fetched = ord("quote"))
            => /\ stack' = stack
               /\ action' = <<"ChangeState", "Normal">>
               /\ pc' = "running"
               /\ instructions' = instructions
               /\ values' = values
               /\ output' = output
       /\ (LoopStep /\ action = <<"None">>)
            => /\ direction' = direction /\ state' = state
               /\ pos' = update_pos(instructions, pos, direction)
       /\ (LoopStep /\ action = <<"ChangeState", "Normal">>)
            => state' = "Normal"
       /\ (instructions = StringProgram /\ pc' = "finished")
            => /\ stack' = <<U32(97), U32(98), U32(99)>>
               /\ state' = "Normal"]_vars

\* "abc" has been executed and the run has ended
C6_Witness ==
    /\ pc = "finished"
    /\ instructions = StringProgram
    /\ stack = <<U32(97), U32(98), U32(99)>>
    /\ state = "Normal"

\* The first row of PutAt("5", "0") once its p has written @ at column 5
PutAheadWritten == Row(<<"&", "5", "0", "p", " ", "@", " ", "@">>)

(* C7: a character written by p is in the grid at once: the cell reads back
   as written, every later dispatch and every g read the grid as it then is,
   so a cell holding @ halts the run when it is stepped onto in Normal mode;
   a program that writes @ ahead of the pointer halts on that cell. *)
C7_WriteVisible ==
    [][/\ (DispatchesNormal("p")
             /\ from_u32_is_some(Pop3.value)
             /\ GridIndexOk(instructions, Pop1.value, Pop2.value))
            => get_instruction_char(instructions',
                   <<AsUsize(Pop1.value), AsUsize(Pop2.value)>>)
                 = (Pop3.value[1] * Limb) + Pop3.value[2]
       /\ (DispatchStep /\ FetchOk /\ state' = "Normal"
             /\ get_instruction_char(instructions, pos') = ord("@"))
            => action' = <<"End">>
       /\ (DispatchesNormal("g")
             /\ GridIndexOk(instructions, Pop1.value, Pop2.value))
            => stack'[Len(stack')] =
                 U32(instructions[AsUsize(Pop1.value) + 1]
                                 [AsUsize(Pop2.value) + 1])
       /\ (Len(instructions') = 2 /\ instructions'[1] = PutAheadWritten)
            => /\ pos' \in {<<0, 3>>, <<0, 4>>, <<0, 5>>}
               /\ pos' = <<0, 5>> => action' = <<"End">>]_vars

\* The @ written at column 5 has ended the run there
C7_Witness ==
    /\ pc = "finished"
    /\ pos = <<0, 5>>
    /\ Len(instructions) = 2
    /\ instructions[1] = PutAheadWritten

(* C8: - after pushing 3 and then 9 pushes -6: the run goes on and the value
   v it pushed is the one with v + 9 = 3 exactly. *)
C8_MinusSix ==
    (instructions = SubProgram /\ pos = <<0, 2>>)
      => /\ pc = "running"
         /\ Len(stack) = 1
         /\ overflowing_add(stack[1], U32(9)) =
              [value |-> U32(3), overflow |-> FALSE]

\* The operands of a binary instruction: a is on top, b under it, both 0
\* when missing
OperandA == IF Len(stack) >= 1 THEN stack[Len(stack)] ELSE Zero
OperandB == IF Len(stack) >= 2 THEN stack[Len(stack) - 1] ELSE Zero
BelowOperands == SubSeq(stack, 1, Len(stack) - 2)

\* The exact result of b op a is a u32 (and a # 0 for / and %)
Representable(op, b, a) ==
    CASE op = "+" -> ~overflowing_add(b, a).overflow
      [] op = "-" -> ~gt_u32(a, b)
      [] op = "*" -> ~overflowing_mul(b, a).overflow
      [] op = "/" -> a # Zero
      [] op = "%" -> a # Zero
      [] op = "backtick" -> TRUE

\* r is b op a, each operation told by its inverse
IsResult(op, b, a, r) ==
    CASE op = "+" -> overflowing_sub(r, a) = [value |-> b, overflow |-> FALSE]
      [] op = "-" -> overflowing_add(r, a) = [value |-> b, overflow |-> FALSE]
      [] op = "*" -> IF a = Zero THEN r = Zero
                     ELSE div_rem(r, a) = [quot |-> b, rem |-> Zero]
      [] op = "/" -> LET m == overflowing_mul(r, a)
                     IN  /\ ~m.overflow
                         /\ ~gt_u32(m.value, b)
                         /\ gt_u32(a, overflowing_sub(b, m.value).value)
      [] op = "%" -> /\ gt_u32(a, r)
                     /\ ~gt_u32(r, b)
                     /\ div_rem(overflowing_sub(b, r).value, a).rem = Zero
      [] op = "backtick" -> r = IF gt_u32(b, a) THEN U32(1) ELSE U32(0)

(* C9: +, -, *, /, % and the backtick pop a, then b, and push the one value
   b+a, b-a, b*a, b/a, b%a, or 1 if b>a else 0, whenever that value is a u32
   (and a # 0 for / and %); missing operands are 0 and the stack below the
   operands is unchanged. *)
C9_BinaryOperands ==
    [][\A op \in BinaryInstructions :
         (DispatchesNormal(op) /\ Representable(op, OperandB, OperandA))
           => /\ pc' = "running"
              /\ action' = <<"None">>
              /\ Len(stack') = Len(BelowOperands) + 1
              /\ SubSeq(stack', 1, Len(stack') - 1) = BelowOperands
              /\ IsResult(op, OperandB, OperandA, stack'[Len(stack')])]_vars

\* 64 and 9 were supplied above a 7: - has left 7 and 64 - 9 = 55
C9_Witness ==
    /\ instructions = BinaryOnSupplied("-")
    /\ pos = <<0, 3>>
    /\ stack = <<U32(7), U32(55)>>

(* C10: & or ~ dispatched in Normal mode with no supplied value left ends
   the run in an outcome of its own, an EmptyInputError, which is none of
   the index and arithmetic aborts; nothing is pushed. *)
C10_EmptyInputError ==
    (/\ pc = "panicked"
     /\ state = "Normal"
     /\ InGrid(instructions, pos)
     /\ get_instruction_char(instructions, pos) \in {ord("&"), ord("~")})
      => /\ values = << >>
         /\ fault \notin {"IndexOutOfBounds", "ArithmeticOverflow",
                          "DivideByZero", "UnwrapNone"}

\* q is what is left of the list l after some of its front was taken
IsSuffix(q, l) ==
    /\ Len(q) <= Len(l)
    /\ q = SubSeq(l, Len(l) - Len(q) + 1, Len(l))

\* The step dispatches & or ~ in Normal mode
DispatchesInput == DispatchesNormal("&") \/ DispatchesNormal("~")

(* C11: the supplied values are consumed front to back and never refilled:
   the queue is always a suffix of the list the program was created with;
   a dispatch of & or ~ in Normal mode takes exactly its first value and
   pushes it (the k-th such dispatch the k-th supplied value), or, with
   nothing left, is fatal and leaves the queue empty; no other step changes
   the queue; & and ~ have this same effect. *)
C11_QueueFrontToBack ==
    [][/\ IsSuffix(values, supplied) /\ IsSuffix(values', supplied)
       /\ supplied' = supplied
       /\ (DispatchesInput /\ values # << >>)
            => /\ values' = Tail(values)
               /\ Len(values') = Len(values) - 1
               /\ stack' = Append(stack,
                                  supplied[Len(supplied) - Len(values) + 1])
               /\ pc' = "running"
               /\ action' = <<"None">>
               /\ instructions' = instructions
               /\ output' = output
       /\ (DispatchesInput /\ values = << >>)
            => /\ values' = << >>
               /\ stack' = stack
               /\ pc' = "panicked"
       /\ ~DispatchesInput => values' = values]_vars

\* & has taken the first supplied value and ~ the second
C11_Witness ==
    /\ instructions = InputProgram
    /\ supplied = <<U32(9), U32(64)>>
    /\ pos = <<0, 1>>
    /\ values = << >>
    /\ stack = <<U32(9), U32(64)>>

\* The stack without its top, and its top (0 when there is none)
AllButTop == IF stack = << >> THEN << >> ELSE SubSeq(stack, 1, Len(stack) - 1)
Top == IF stack = << >> THEN Zero ELSE stack[Len(stack)]

(* C12: pop returns and removes the most recently pushed value that was not
   popped yet: a pop after a push returns the pushed value and leaves the
   stack as it was before the push, whatever the stack; pop of the empty
   stack returns 0, leaves it empty and is no error, again and again.  So do
   the instructions that push (a digit) and pop ($ and .). *)
C12_PopLastPushed ==
    [][/\ \A v \in SuppliedValues :
            pop(push(stack, v)) = [value |-> v, stack |-> stack]
       /\ pop(stack) = [value |-> Top, stack |-> AllButTop]
       /\ pop(<< >>) = [value |-> Zero, stack |-> << >>]
       /\ pop(pop(<< >>).stack) = pop(<< >>)
       /\ (DispatchStep /\ FetchOk /\ state' = "Normal" /\ IsDigit(Fetched))
            => /\ stack' = Append(stack, U32(Fetched - 48))
               /\ pop(stack').stack = stack
       /\ DispatchesNormal("$")
            => /\ stack' = AllButTop
               /\ pc' = "running"
               /\ output' = output
       /\ DispatchesNormal(".")
            => /\ stack' = AllButTop
               /\ output' = Append(output, <<"number", Top>>)
               /\ pc' = "running"]_vars

\* 1 and 2 were pushed: . printed the 2, $ removed the 1, two more $ popped
\* the empty stack and . printed the 0 it popped from the empty stack
C12_Witness ==
    /\ pc = "finished"
    /\ instructions = PopProgram
    /\ stack = << >>
    /\ output = <<<<"number", U32(2)>>, <<"number", U32(0)>>, <<"banner">>>>

\* The stack under its top two values
UnderTopTwo == SubSeq(stack, 1, Len(stack) - 2)

(* C13: switch_top (the backslash), stacks written bottom to top: with two
   values or more it exchanges the top two and leaves what is below as it
   was ([3,9] becomes [9,3]); with the single value a it leaves [a,0]; on the
   empty stack it leaves [0,0]; it never fails. *)
C13_SwitchTopLadder ==
    [][/\ switch_top(<<U32(3), U32(9)>>) = <<U32(9), U32(3)>>
       /\ switch_top(<<U32(7)>>) = <<U32(7), Zero>>
       /\ switch_top(<< >>) = <<Zero, Zero>>
       /\ DispatchesNormal("backslash")
            => /\ pc' = "running"
               /\ action' = <<"None">>
               /\ Len(stack) >= 2 =>
                    stack' = UnderTopTwo \o
                               <<stack[Len(stack)], stack[Len(stack) - 1]>>
               /\ Len(stack) = 1 => stack' = <<stack[1], Zero>>
               /\ Len(stack) = 0 => stack' = <<Zero, Zero>>]_vars

\* The backslash on 5, 3, 9 has exchanged the 3 and the 9 above the 5
C13_Witness ==
    /\ instructions = OnThree("backslash")
    /\ pos = <<0, 3>>
    /\ stack = <<U32(5), U32(9), U32(3)>>

(* C14: duplicate_top (:) never fails: on a stack that is not empty it
   leaves everything under the top as it was and ends with two copies of the
   old top (one value more, [5] becomes [5,5]); on the empty stack it leaves
   [0,0] (two values more). *)
C14_DuplicateTopTotal ==
    [][/\ duplicate_top(<<U32(5)>>) = <<U32(5), U32(5)>>
       /\ duplicate_top(<< >>) = <<Zero, Zero>>
       /\ DispatchesNormal(":")
            => /\ pc' = "running"
               /\ action' = <<"None">>
               /\ Len(stack) >= 1 =>
                    /\ stack' = Append(stack, stack[Len(stack)])
                    /\ Len(stack') = Len(stack) + 1
               /\ Len(stack) = 0 =>
                    /\ stack' = <<Zero, Zero>>
                    /\ Len(stack') = Len(stack) + 2]_vars

\* : on 5, 3, 9 has left a second 9 on top
C14_Witness ==
    /\ instructions = OnThree(":")
    /\ pos = <<0, 3>>
    /\ stack = <<U32(5), U32(3), U32(9), U32(9)>>

Directions == {"Right", "Left", "Up", "Down"}

\* How many of the choices ch were Left
Lefts(ch) == Cardinality({i \in DOMAIN ch : ch[i] = "Left"})

\* The number the example prints after the choices ch
ExampleNumber(ch) ==
    U32(CASE Lefts(ch) = 0 -> 16
          [] Lefts(ch) = 1 -> 8
          [] Lefts(ch) = 2 -> 4
          [] Lefts(ch) = 3 -> 2
          [] Lefts(ch) = 4 -> 1
          [] OTHER -> 0)

(* C15: the example program 1248::+1> #+?\#_.@ on the supplied values [0],
   whatever ? chooses: each ? sets the direction to one of Right, Left, Up,
   Down (the next iteration moves in the direction drawn); no step is a
   fatal abort; and the output is a function of the choices made so far and
   of nothing else: nothing, or the one number the choices determine. *)
C15_ExampleChoices ==
    [][/\ pc' # "panicked" /\ fault' = "none"
       /\ DispatchesNormal("?")
            => /\ choices' = Append(choices, action'[2])
               /\ action'[1] = "ChangeDir"
               /\ action'[2] \in Directions
       /\ (LoopStep /\ get_instruction_char(instructions, pos) = ord("?"))
            => /\ direction' = choices[Len(choices)]
               /\ direction' \in Directions
       /\ \/ output' = << >>
          \/ output' = <<<<"number", ExampleNumber(choices')>>>>
          \/ output' = <<<<"number", ExampleNumber(choices')>>, <<"banner">>>>
       /\ pc' = "finished" =>
            /\ Len(output') = 2
            /\ choices'[Len(choices')] = "Right"]_vars

\* The example has ended after ? drew Left, Up, Left, Down and Right, and
\* has printed 4
C15_Witness ==
    /\ pc = "finished"
    /\ instructions = SpecExample
    /\ supplied = <<U32(0)>>
    /\ choices = <<"Left", "Up", "Left", "Down", "Right">>
    /\ output = <<<<"number", U32(4)>>, <<"banner">>>>

\* The number of rows and the length of each row
Shape(ins) == [i \in DOMAIN ins |-> Len(ins[i])]

\* Row x, column y is a cell of the grid
CellExists(x, y) ==
    /\ x[1] = 0 /\ x[2] < Len(instructions)
    /\ y[1] = 0 /\ y[2] < Len(instructions[x[2] + 1])

(* C16: no step changes the shape of the grid (the number of rows and the
   length of every row); p overwrites exactly the one cell it addresses when
   that cell exists (and its value is a character, see C20), every other
   cell unchanged; p on coordinates outside the grid is fatal and leaves the
   grid unchanged, an index error unless the conversion of its value failed
   first; g on coordinates outside the grid is a fatal index error; no
   other instruction writes the grid.  Nothing is clamped, wrapped or
   grown. *)
C16_GridShapeFixed ==
    [][/\ Shape(instructions') = Shape(instructions)
       /\ (DispatchesNormal("p") /\ CellExists(Pop1.value, Pop2.value)
             /\ from_u32_is_some(Pop3.value))
            => /\ pc' = "running"
               /\ \A i \in DOMAIN instructions :
                    \A j \in DOMAIN instructions[i] :
                       instructions'[i][j] =
                          IF i = Pop1.value[2] + 1 /\ j = Pop2.value[2] + 1
                          THEN (Pop3.value[1] * Limb) + Pop3.value[2]
                          ELSE instructions[i][j]
       /\ (DispatchesNormal("p") /\ ~CellExists(Pop1.value, Pop2.value))
            => /\ pc' = "panicked"
               /\ instructions' = instructions
               /\ from_u32_is_some(Pop3.value)
                    => fault' = "IndexOutOfBounds"
       /\ (DispatchesNormal("g") /\ ~CellExists(Pop1.value, Pop2.value))
            => /\ pc' = "panicked"
               /\ fault' = "IndexOutOfBounds"
               /\ instructions' = instructions
       /\ ~DispatchesNormal("p") => instructions' = instructions]_vars

\* p on row 1114112 (65536 * 17), column 1 has ended the run with an index
\* error and the grid as it was
C16_Witness ==
    /\ pc = "panicked"
    /\ fault = "IndexOutOfBounds"
    /\ instructions = PutSupplied
    /\ supplied = <<U32(1), U32(1114112)>>
    /\ pos = <<0, 3>>

\* The step dispatches / or % in Normal mode
DispatchesDivision == DispatchesNormal("/") \/ DispatchesNormal("%")

(* C17: / or % dispatched in Normal mode with the first popped operand a = 0
   (a missing operand reads as 0) is a fatal arithmetic fault that ends the
   run at once: nothing is pushed, the two operands stay popped, nothing is
   output, the position stays on the instruction and no step follows. *)
C17_DivisionByZeroFatal ==
    [][/\ (DispatchesDivision /\ OperandA = Zero)
            => /\ pc' = "panicked"
               /\ fault' = "DivideByZero"
               /\ stack' = BelowOperands
               /\ output' = output
               /\ instructions' = instructions
               /\ values' = values
       /\ (DispatchesDivision /\ OperandA # Zero) => pc' = "running"
       /\ pc # "panicked"]_vars

\* % on 9 and a supplied 0 above a 7 has ended the run: the 7 is left
C17_Witness ==
    /\ pc = "panicked"
    /\ fault = "DivideByZero"
    /\ instructions = BinaryOnSupplied("%")
    /\ supplied = <<U32(9), U32(0)>>
    /\ pos = <<0, 3>>
    /\ stack = <<U32(7)>>

\* The run has ended having printed the one number n and read no value
HaltedWith(n) ==
    /\ pc = "finished"
    /\ output = <<<<"number", n>>, <<"banner">>>>
    /\ values = <<U32(0)>>

(* C18, as claimed, for the state in which the example has halted: exactly
   one number has been output, it is one of 16, 4, 2, 1, 0, and the supplied
   0 has not been consumed. *)
C18_HaltedNumberListed ==
    pc = "finished" =>
        \E n \in {U32(16), U32(4), U32(2), U32(1), U32(0)} : HaltedWith(n)

(* C18, amended: the example program on the supplied values [0], when ? does
   not avoid Right for ever, eventually halts; when it has, exactly one
   number has been output, it is one of 16, 8, 4, 2, 1, 0, and the supplied
   0 has not been consumed. *)
C18_ExampleHalts ==
    /\ <>(pc = "finished")
    /\ [](pc = "finished" =>
            \E n \in {U32(16), U32(8), U32(4), U32(2), U32(1), U32(0)} :
                HaltedWith(n))

\* The example has halted after one Left and a Right and has printed 8
C18_Witness ==
    /\ instructions = SpecExample
    /\ HaltedWith(U32(8))
    /\ stack = <<U32(1), U32(2), U32(4), U32(17)>>

\* On a one-row grid, ^ or v was dispatched in Normal mode and the run goes on
TurnedVertical ==
    /\ pc = "running"
    /\ Len(instructions) = 1
    /\ state = "Normal"
    /\ InGrid(instructions, pos)
    /\ \/ /\ get_instruction_char(instructions, pos) = ord("^")
          /\ action = <<"ChangeDir", "Up">>
       \/ /\ get_instruction_char(instructions, pos) = ord("v")
          /\ action = <<"ChangeDir", "Down">>

(* C19: on a grid of exactly one row an advance Up or Down leaves the
   position where it is; so once ^ or v has been dispatched in Normal mode
   on such a grid, every later iteration dispatches that same cell again:
   nothing else runs (stack, grid, queue and output stay as they are) and
   execute never ends. *)
C19_OneRowVerticalLoop ==
    [][/\ (LoopStep /\ Len(instructions) = 1
             /\ direction' \in {"Up", "Down"})
            => pos' = pos
       /\ TurnedVertical
            => /\ TurnedVertical'
               /\ pos' = pos
               /\ action' = action
               /\ direction' = action[2]
               /\ stack' = stack
               /\ instructions' = instructions
               /\ values' = values
               /\ output' = output
               /\ pc' # "finished"]_vars

\* The ^ of 1^@ has been dispatched again after the advance upwards
C19_Witness ==
    /\ instructions = OneRowUp
    /\ TurnedVertical
    /\ direction = "Up"
    /\ pos = <<0, 1>>
    /\ stack = <<U32(1)>>

\* v lies in 0xD800..0xDFFF or exceeds 0x10FFFF
NotScalar(v) ==
    \/ v[1] = 0 /\ v[2] >= 55296 /\ v[2] <= 57343
    \/ v[1] >= 17

\* The character of codepoint v
CharOf(v) == (v[1] * Limb) + v[2]

(* C20: , and p dispatched in Normal mode end the run fatally when the value
   they use as a codepoint (the one popped by , and the third popped by p)
   is no Unicode scalar value: nothing is output and the grid is unchanged.
   For every other value , outputs exactly the one character of that
   codepoint, and p on coordinates inside the grid writes exactly that
   character. *)
C20_CodepointConversion ==
    [][/\ (DispatchesNormal(",") /\ NotScalar(Top))
            => /\ pc' = "panicked"
               /\ fault' = "UnwrapNone"
               /\ output' = output
               /\ instructions' = instructions
       /\ (DispatchesNormal(",") /\ ~NotScalar(Top))
            => /\ pc' = "running"
               /\ output' = Append(output, <<"char", CharOf(Top)>>)
               /\ stack' = AllButTop
               /\ instructions' = instructions
       /\ (DispatchesNormal("p") /\ NotScalar(Pop3.value))
            => /\ pc' = "panicked"
               /\ fault' = "UnwrapNone"
               /\ output' = output
               /\ instructions' = instructions
       /\ (DispatchesNormal("p") /\ ~NotScalar(Pop3.value)
             /\ CellExists(Pop1.value, Pop2.value))
            => /\ pc' = "running"
               /\ output' = output
               /\ instructions'[Pop1.value[2] + 1][Pop2.value[2] + 1]
                    = CharOf(Pop3.value)]_vars

\* , on the supplied surrogate 0xD800 has ended the run with nothing output
C20_Witness ==
    /\ pc = "panicked"
    /\ fault = "UnwrapNone"
    /\ instructions = PrintCharProgram
    /\ supplied = <<U32(55296)>>
    /\ pos = <<0, 1>>
    /\ output = << >>

====
